---- MODULE Spec2Model ----
(***************************************************************************)
(* A model of src/mcu/websocket.py: the handshake of connect() and the     *)
(* frame engine of WebsocketClient (recv, _read_frame, send, _write_frame, *)
(* close, wait_closed).  One session drives one stream; the operations of  *)
(* a session never overlap (one call is outstanding at a time), and recv() *)
(* is observed once per frame it reads.                                    *)
(***************************************************************************)
EXTENDS Integers, Sequences, FiniteSets, TLC

\* ------------------------------------------------------------ bounds
\* Longest reassembly buffer recv() is followed to, in bytes.
MaxBuf == 2
\* Most frames the session is followed writing to its stream.
MaxWritten == 2
\* Most header lines of the handshake response that are enumerated.
MaxHeaders == 2

\* ------------------------------------------------------------ constants
OP_CONT == 0
OP_TEXT == 1
OP_BYTES == 2
OP_CLOSE == 8
OP_PING == 9
OP_PONG == 10
CLOSE_OK == 1000
CLOSE_GOING_AWAY == 1001
CLOSE_TOO_BIG == 1009
\* popcode = None: no opcode seen yet in this recv() call (outside 4 bits).
NONE == 16

\* The opcodes a frame header can carry that the model enumerates: the six
\* defined ones and two undefined ones (a reserved data and a reserved
\* control opcode).
UnknownOps == {3, 11}
Opcodes == {OP_CONT, OP_TEXT, OP_BYTES, OP_CLOSE, OP_PING, OP_PONG} \cup UnknownOps
DataOps == {OP_TEXT, OP_BYTES}

\* Payload bytes: the two bytes of U+00E9 (0xC3 0xA9), so that a payload may
\* be valid UTF-8, invalid UTF-8, or half of a character.
Bytes == {195, 169}

RECURSIVE SeqsUpTo(_, _)
SeqsUpTo(S, n) ==
    IF n = 0 THEN {<<>>}
    ELSE LET shorter == SeqsUpTo(S, n - 1)
         IN shorter \cup {Append(s, x) : s \in shorter, x \in S}

\* The payloads an inbound data, PING or PONG frame is enumerated with.
Payloads == {<<>>} \cup {<<b>> : b \in Bytes}

\* ------------------------------------------------------------ codecs
\* struct.pack('!H', code): 16 bits, big-endian.
Pack16(code) == <<(code \div 256) % 256, code % 256>>

\* bytes.decode('utf-8') on the one- and two-byte forms: whether it succeeds.
RECURSIVE Utf8Valid(_)
Utf8Valid(b) ==
    IF b = <<>> THEN TRUE
    ELSE IF b[1] < 128 THEN Utf8Valid(Tail(b))
    ELSE IF b[1] \in 194..223 /\ Len(b) >= 2 /\ b[2] \in 128..191
         THEN Utf8Valid(Tail(Tail(b)))
    ELSE FALSE

\* bytes.decode('utf-8') of a valid sequence: its code points.
RECURSIVE Utf8Decode(_)
Utf8Decode(b) ==
    IF b = <<>> THEN <<>>
    ELSE IF b[1] < 128 THEN <<b[1]>> \o Utf8Decode(Tail(b))
    ELSE <<(b[1] - 192) * 64 + (b[2] - 128)>> \o Utf8Decode(Tail(Tail(b)))

\* str.encode('utf-8') of code points below U+0800.
RECURSIVE Utf8Encode(_)
Utf8Encode(t) ==
    IF t = <<>> THEN <<>>
    ELSE IF t[1] < 128 THEN <<t[1]>> \o Utf8Encode(Tail(t))
    ELSE <<192 + (t[1] \div 64), 128 + (t[1] % 64)>> \o Utf8Encode(Tail(t))

\* b ^ m on two bytes.
RECURSIVE Xor(_, _)
Xor(a, b) ==
    IF a = 0 THEN b
    ELSE IF b = 0 THEN a
    ELSE ((a + b) % 2) + 2 * Xor(a \div 2, b \div 2)

\* bytes(b ^ mask_bits[i % 4] for i, b in enumerate(data)); i counts from 0.
MaskData(data, key) == [i \in 1..Len(data) |-> Xor(data[i], key[((i - 1) % 4) + 1])]

\* The mask key a masked inbound frame is enumerated with.
MaskKey == <<17, 34, 51, 68>>

\* a | b and a & b on two non-negative integers.
RECURSIVE BitOr(_, _)
BitOr(a, b) ==
    IF a = 0 THEN b
    ELSE IF b = 0 THEN a
    ELSE (IF a % 2 = 1 \/ b % 2 = 1 THEN 1 ELSE 0) + 2 * BitOr(a \div 2, b \div 2)

RECURSIVE BitAnd(_, _)
BitAnd(a, b) ==
    IF a = 0 \/ b = 0 THEN 0
    ELSE (a % 2) * (b % 2) + 2 * BitAnd(a \div 2, b \div 2)

\* struct.pack of an unsigned integer in network order on k bytes ('!H' is
\* k = 2, '!Q' is k = 8), and struct.unpack of such bytes.
RECURSIVE PackBE(_, _)
PackBE(n, k) == IF k = 0 THEN <<>> ELSE Append(PackBE(n \div 256, k - 1), n % 256)

RECURSIVE UnpackBE(_)
UnpackBE(bs) ==
    IF bs = <<>> THEN 0
    ELSE UnpackBE(SubSeq(bs, 1, Len(bs) - 1)) * 256 + bs[Len(bs)]

\* n < (1 << (8 * k)), computed without forming the power.
RECURSIVE Fits(_, _)
Fits(n, k) == IF k = 0 THEN n = 0 ELSE Fits(n \div 256, k - 1)

\* A frame header that spends the 7-bit length field on every length below 128.
FrameHeader_Short(opcode, length) ==
    IF length < 128 THEN <<BitOr(128, opcode), BitOr(128, length)>>
    ELSE IF Fits(length, 2) THEN <<BitOr(128, opcode), BitOr(128, 126)>> \o PackBE(length, 2)
    ELSE <<BitOr(128, opcode), BitOr(128, 127)>> \o PackBE(length, 8)

\* _write_frame(), lines 216-241: the header bytes of a final, masked frame;
\* <<>> stands for the ValueError of a length that does not fit 64 bits.
FrameHeader(opcode, length) ==
    LET byte1 == BitOr(128, opcode)
        byte2 == 128
    IN IF length < 126 THEN <<byte1, BitOr(byte2, length)>>
       ELSE IF Fits(length, 2) THEN <<byte1, BitOr(byte2, 126)>> \o PackBE(length, 2)
       ELSE IF Fits(length, 8) THEN <<byte1, BitOr(byte2, 127)>> \o PackBE(length, 8)
       ELSE <<>>

\* _write_frame(opcode, data), lines 215-248, with `key` the mask bits that
\* random.getrandbits(32) gave: the bytes written to the stream.
WriteFrameBytes(opcode, data, key) ==
    LET header == FrameHeader(opcode, Len(data))
    IN IF header = <<>> THEN <<>> ELSE header \o key \o MaskData(data, key)

\* The payload lengths at the edges of the three length-field variants.
FrameLengths == {0, 1, 125, 126, 65535, 65536}

\* A payload of L bytes whose bytes differ from place to place.
PayloadOf(L) == [i \in 1..L |-> (i - 1) % 251]

\* The mask keys and opcodes _write_frame() is run with.
MaskKeys == {<<0, 0, 0, 0>>, MaskKey}
CodecOpcodes == {OP_TEXT, OP_BYTES, OP_PONG}

\* ------------------------------------------------------------ handshake
\* The lines a server may answer with, byte by byte.  <<>> is what
\* stream.readline() returns at end-of-file.
Prefix101 == <<"H", "T", "T", "P", "/", "1", ".", "1", " ", "1", "0", "1", " ">>
CRLF == <<"\r", "\n">>
EOFLine == <<>>
StatusLines ==
    { Prefix101 \o <<"O", "K">> \o CRLF,
      <<"H", "T", "T", "P", "/", "1", ".", "1", " ", "4", "0", "4", " ", "N", "F">> \o CRLF,
      <<"H", "T", "T", "P", "/", "1", ".", "1", " ", "1", "0", "1">> \o CRLF,
      <<"H", "T", "T", "P", "/", "1", ".", "0", " ", "1", "0", "1", " ", "O", "K">> \o CRLF,
      EOFLine }
HeaderLines == { CRLF, <<"a", ":", "b">> \o CRLF, EOFLine }

\* header[:-2]
DropLast2(line) == SubSeq(line, 1, Len(line) - 2)

\* header.startswith(prefix)
StartsWith(line, prefix) ==
    /\ Len(line) >= Len(prefix)
    /\ SubSeq(line, 1, Len(prefix)) = prefix

\* The status line connect() accepts.
StatusOk(line) == StartsWith(DropLast2(line), Prefix101)

\* How the loop that discards the response headers ends on the lines `hdrs`
\* (followed by end-of-file): "blank" at the empty line, "eof" when
\* readline() returns b'' and the while condition fails.
RECURSIVE HeaderLoop(_)
HeaderLoop(hdrs) ==
    IF hdrs = <<>> THEN "eof"
    ELSE IF Head(hdrs) = CRLF THEN "blank"
    ELSE IF Head(hdrs) = EOFLine THEN "eof"
    ELSE HeaderLoop(Tail(hdrs))

\* The header lines connect() writes: the request line, the fixed headers,
\* the token header when a token is given, and the empty line.
Request(token) ==
    <<"GET", "Host", "Connection", "Upgrade", "Sec-WebSocket-Key",
      "Sec-WebSocket-Version", "Origin">>
    \o (IF token THEN <<"wake-on-mcu-token">> ELSE <<>>)
    \o <<"">>

\* The ssl argument _open_connection() is called with for a scheme.
UseSsl(scheme) == FALSE

\* The responses enumerated: header lines up to the line that ends the loop.
HeaderSeqs ==
    { h \in SeqsUpTo(HeaderLines, MaxHeaders) :
        \A i \in 1..(Len(h) - 1) : h[i] \notin {CRLF, EOFLine} }

Schemes == {"ws", "wss", "http"}

\* ------------------------------------------------------------ state
VARIABLES
    pc,        \* "init" | "failed" | "idle" (no call outstanding) | "recv" (recv() awaits a frame)
    sock,      \* the connection: "none" | "open" | "closed"
    tls,       \* whether the connection was wrapped by ssl.wrap_socket
    open,      \* WebsocketClient.open
    outbuf,    \* frames written to the stream and not yet drained
    wire,      \* frames drained to the peer, in order
    popcode,   \* recv(): popcode
    buf,       \* recv(): buf
    ret,       \* how the last call ended: [op, out, val]
    frame,     \* what the last _read_frame() of the current recv() met
    gop,       \* opcode of the data frame that the latest frames continue, or NONE
    gbuf,      \* concatenation of the payloads of that data frame and its CONTINUATIONs
    gdrop,     \* whether the frame just read is a data frame that found an unfinished
               \* sequence holding payload
    cpc,       \* frame codec: "start" | "written" | "extlen" | "maskkey" | "payload" | "done"
    cin,       \* frame codec: the opcode, data and mask key of the _write_frame() call
    cstream,   \* frame codec: the bytes _write_frame() wrote to the stream
    cpos,      \* frame codec: how many of these bytes _read_frame() has read
    cfr        \* frame codec: what _read_frame() has decoded so far

\* The session, and the byte-level frame codec.
svars == <<pc, sock, tls, open, outbuf, wire, popcode, buf, ret, frame, gop, gbuf, gdrop>>
cvars == <<cpc, cin, cstream, cpos, cfr>>
vars == <<svars, cvars>>

Ret(op, out, val) == [op |-> op, out |-> out, val |-> val]
NoFrame == [tag |-> "none", fin |-> FALSE, opcode |-> NONE, data |-> <<>>, stage |-> ""]

\* Nothing given to _write_frame() yet, nothing decoded by _read_frame() yet.
NoInput == [opcode |-> NONE, data |-> <<>>, key |-> <<>>]
NoRead == [fin |-> FALSE, opcode |-> NONE, mask |-> FALSE, length |-> 0, key |-> <<>>,
           data |-> <<>>]

Init ==
    /\ pc = "init"
    /\ sock = "none"
    /\ tls = FALSE
    /\ open = FALSE
    /\ outbuf = <<>>
    /\ wire = <<>>
    /\ popcode = NONE
    /\ buf = <<>>
    /\ ret = Ret("none", "None", <<>>)
    /\ frame = NoFrame
    /\ gop = NONE
    /\ gbuf = <<>>
    /\ gdrop = FALSE
    /\ cpc = "start"
    /\ cin = NoInput
    /\ cstream = <<>>
    /\ cpos = 0
    /\ cfr = NoRead

\* What connect() did with the connection: the scheme it was given, the
\* request lines it sent, the status line it read (nread = 0: none was
\* read) and how the header loop ended.
ConnInfo(scheme, request, nread, status, hend) ==
    [scheme |-> scheme, request |-> request, nread |-> nread, status |-> status,
     hend |-> hend]

ConnFailed(sk, out, info) ==
    [pc |-> "failed", sock |-> sk, tls |-> FALSE, open |-> FALSE,
     ret |-> Ret("connect", out, info)]

\* connect(url, token), lines 33-85: how it ends and what it leaves of the
\* connection.  io is what the transport does: "ok", "refused" (no
\* connection is made), "drainfail" (the request cannot be sent), "readfail"
\* (reading the status line fails).
ConnectResult(scheme, token, io, status, hdrs) ==
    IF scheme \notin {"ws", "wss"}
    THEN ConnFailed("none", "ValueError", ConnInfo(scheme, <<>>, 0, <<>>, ""))
    ELSE IF io = "refused"
    THEN ConnFailed("none", "OSError", ConnInfo(scheme, <<>>, 0, <<>>, ""))
    ELSE IF io = "drainfail"
    THEN [ConnFailed("open", "OSError", ConnInfo(scheme, <<>>, 0, <<>>, ""))
            EXCEPT !.tls = UseSsl(scheme)]
    ELSE IF io = "readfail"
    THEN [ConnFailed("open", "OSError", ConnInfo(scheme, Request(token), 0, <<>>, ""))
            EXCEPT !.tls = UseSsl(scheme)]
    ELSE IF ~StatusOk(status)
    THEN [ConnFailed("open", "Exception", ConnInfo(scheme, Request(token), 1, status, ""))
            EXCEPT !.tls = UseSsl(scheme)]
    ELSE [pc |-> "idle", sock |-> "open", tls |-> UseSsl(scheme), open |-> TRUE,
          ret |-> Ret("connect", "session",
                      ConnInfo(scheme, Request(token), 1, status, HeaderLoop(hdrs)))]

ConnectOn(scheme, token, io, status, hdrs) ==
    /\ pc = "init"
    /\ LET r == ConnectResult(scheme, token, io, status, hdrs)
       IN /\ pc' = r.pc
          /\ sock' = r.sock
          /\ tls' = r.tls
          /\ open' = r.open
          /\ ret' = r.ret
    /\ UNCHANGED <<outbuf, wire, popcode, buf, frame, gop, gbuf, gdrop, cvars>>

Connect ==
    \E scheme \in Schemes, token \in BOOLEAN,
       io \in {"ok", "refused", "drainfail", "readfail"},
       status \in StatusLines, hdrs \in HeaderSeqs :
        ConnectOn(scheme, token, io, status, hdrs)

\* ------------------------------------------------------------ session
\* The part of the state that close(), _write_frame() and drain() act on.
Sess == [open |-> open, outbuf |-> outbuf, wire |-> wire, sock |-> sock]

\* _write_frame(opcode, data): one final, masked frame appended to the
\* stream's output buffer.
SWrite(s, opcode, data) ==
    [s EXCEPT !.outbuf = Append(@, [opcode |-> opcode, data |-> data])]

\* close() without the test of self.open.
SClose_NoGuard(s, code, reason) ==
    [SWrite(s, OP_CLOSE, Pack16(code) \o Utf8Encode(reason)) EXCEPT !.open = FALSE]

\* close(code, reason)
SClose(s, code, reason) ==
    IF ~s.open THEN s
    ELSE [SWrite(s, OP_CLOSE, Pack16(code) \o Utf8Encode(reason)) EXCEPT !.open = FALSE]

\* stream.drain() raises OSError: there are bytes to send and the
\* connection is closed or the transport fails (dok = FALSE).
DrainFails(s, dok) == s.outbuf # <<>> /\ (s.sock # "open" \/ ~dok)

\* stream.drain() that succeeds
SDrain(s) == [s EXCEPT !.wire = @ \o s.outbuf, !.outbuf = <<>>]

\* stream.wait_closed()
SRelease(s) == [s EXCEPT !.sock = "closed"]

\* Lines 130-134 with the buffer cleared on every frame.
SeqBuf_Forget(opcode, b) == <<>>

\* Lines 130-134 with the buffer kept on every frame.
SeqBuf_Keep(opcode, b) == b

\* recv(), lines 130-134: the opcode a frame is dispatched on, and the
\* buffer and popcode it leaves.
SeqOpcode(opcode, pop) == IF opcode = OP_CONT THEN pop ELSE opcode
SeqBuf(opcode, b) == IF opcode = OP_CONT THEN b ELSE <<>>
SeqPopcode(opcode, pop) == IF opcode = OP_CONT THEN pop ELSE opcode

\* recv(), lines 160-165: the value returned for a finished message.
RecvMessage(opcode, b) ==
    IF opcode = OP_TEXT
    THEN IF Utf8Valid(b) THEN Ret("recv", "str", Utf8Decode(b))
         ELSE Ret("recv", "UnicodeError", <<>>)
    ELSE Ret("recv", "bytearray", b)

RetNone(op) == Ret(op, "None", <<>>)

\* One turn of recv()'s loop ends: the call returns or raises (pc "idle")
\* or goes on to the next frame (pc "recv").
Ended(s, pop, b, r) == [s |-> s, popcode |-> pop, buf |-> b, pc |-> "idle", ret |-> r]
Again(s, pop, b, r) ==
    IF s.open THEN [s |-> s, popcode |-> pop, buf |-> b, pc |-> "recv", ret |-> r]
    ELSE Ended(s, pop, b, RetNone("recv"))

\* recv(), lines 139-142: a CLOSE frame was read.
OnClose(s, data) == SClose(s, CLOSE_OK, <<>>)

\* Lines 136-158 with an opcode that is not known ignored like a PONG.
Branch_SkipUnknown(op) ==
    IF op = OP_TEXT \/ op = OP_BYTES THEN "data"
    ELSE IF op = OP_CLOSE THEN "close"
    ELSE IF op = OP_PING THEN "ping"
    ELSE "pong"

\* Lines 136-158 with a PING ignored like a PONG.
Branch_PingAsPong(op) ==
    IF op = OP_TEXT \/ op = OP_BYTES THEN "data"
    ELSE IF op = OP_CLOSE THEN "close"
    ELSE IF op = OP_PONG \/ op = OP_PING THEN "pong"
    ELSE "unknown"

\* recv(), lines 136-158: the branch taken on the dispatched opcode.
Branch(op) ==
    IF op = OP_TEXT \/ op = OP_BYTES THEN "data"
    ELSE IF op = OP_CLOSE THEN "close"
    ELSE IF op = OP_PONG THEN "pong"
    ELSE IF op = OP_PING THEN "ping"
    ELSE "unknown"

\* recv(), lines 129-165, on the frame (fin, opcode, data) that
\* _read_frame() returned.
Dispatch(s, pop, b, r, fin, opcode, data, dok) ==
    LET op == SeqOpcode(opcode, pop)
        b0 == SeqBuf(opcode, b)
        p0 == SeqPopcode(opcode, pop)
    IN IF Branch(op) = "data"
       THEN IF fin THEN Ended(s, p0, b0 \o data, RecvMessage(op, b0 \o data))
            ELSE Again(s, p0, b0 \o data, r)
       ELSE IF Branch(op) = "close"
       THEN LET s1 == OnClose(s, data)
            IN IF DrainFails(s1, dok)
               THEN Ended(s1, p0, b0, Ret("recv", "OSError", <<>>))
               ELSE Ended(SRelease(SDrain(s1)), p0, b0, RetNone("recv"))
       ELSE IF Branch(op) = "pong"
       THEN Again(s, p0, b0, r)
       ELSE IF Branch(op) = "ping"
       THEN LET s1 == SWrite(s, OP_PONG, data)
            IN IF DrainFails(s1, dok)
               THEN Ended(s1, p0, b0, Ret("recv", "OSError", <<>>))
               ELSE Again(SDrain(s1), p0, b0, r)
       ELSE Ended(s, p0, b0, Ret("recv", "ValueError", <<op>>))

\* ------------------------------------------------------------ inbound
\* Where a read of _read_frame() can fail: the two header bytes, the
\* extended length, the mask key, the payload.
Stages == {"header", "extlen", "maskkey", "payload"}

\* The payloads a CLOSE frame arrives with: none, or a 16-bit close code.
ClosePayloads == {<<>>, Pack16(CLOSE_OK), Pack16(CLOSE_GOING_AWAY)}

PayloadsOf(opcode) == IF opcode = OP_CLOSE THEN ClosePayloads ELSE Payloads

\* What the stream holds for one _read_frame(): a whole frame (its payload
\* as on the wire, masked with `key` when the mask bit is set), or a read
\* that fails at a stage: end-of-file, a transport error, or a payload that
\* cannot be allocated.
Inputs ==
    UNION { { [tag |-> "frame", fin |-> f, opcode |-> o, masked |-> m, key |-> MaskKey,
               payload |-> IF m THEN MaskData(d, MaskKey) ELSE d, stage |-> ""] :
                f \in BOOLEAN, m \in BOOLEAN, d \in PayloadsOf(o) } : o \in Opcodes }
    \cup
    { [tag |-> t, fin |-> FALSE, opcode |-> NONE, masked |-> FALSE, key |-> MaskKey,
       payload |-> <<>>, stage |-> st] :
        t \in {"eof", "oserror"}, st \in Stages }
    \cup
    { [tag |-> "memerr", fin |-> FALSE, opcode |-> NONE, masked |-> FALSE, key |-> MaskKey,
       payload |-> <<>>, stage |-> "payload"] }

\* _read_frame(), lines 195-198: the payload it returns.
FrameData(in) == IF in.masked THEN MaskData(in.payload, in.key) ELSE in.payload

\* Lines 125-127 closing the session with close() on EOFError.
OnEof_SendsClose(s) == SClose(s, CLOSE_OK, <<>>)

\* recv(), lines 125-127: _read_frame() raised EOFError.
OnEof(s) == [s EXCEPT !.open = FALSE]

\* _read_frame(), lines 189-191: the payload cannot be allocated.
OnMemoryError(s) == SClose(s, CLOSE_TOO_BIG, <<>>)

\* One turn of recv()'s loop, lines 122-165 with _read_frame() inlined, on
\* what the stream holds.
RecvStep(s, pop, b, r, in, dok) ==
    IF in.tag = "eof"
    THEN Ended(OnEof(s), pop, b, RetNone("recv"))
    ELSE IF in.tag = "oserror"
    THEN Ended(s, pop, b, Ret("recv", "OSError", <<>>))
    ELSE IF in.tag = "memerr"
    THEN LET s1 == OnMemoryError(s)
         IN IF DrainFails(s1, dok)
            THEN Ended(s1, pop, b, Ret("recv", "OSError", <<>>))
            ELSE Dispatch(SDrain(s1), pop, b, r, TRUE, OP_CLOSE, <<>>, dok)
    ELSE Dispatch(s, pop, b, r, in.fin, in.opcode, FrameData(in), dok)

\* What _read_frame() met, as the model remembers it.
FrameOf(in) ==
    [tag |-> in.tag, fin |-> in.fin, opcode |-> in.opcode,
     data |-> IF in.tag = "frame" THEN FrameData(in) ELSE <<>>,
     stage |-> IF in.tag = "eof" THEN in.stage ELSE ""]

\* The fragmentation sequence the latest frames form: a data frame opens
\* one, each CONTINUATION that follows it directly extends it, and any other
\* frame (or a failed read) leaves none.  gop is NONE when there is none.
NextGop(in) ==
    IF in.tag # "frame" THEN NONE
    ELSE IF in.opcode \in DataOps THEN in.opcode
    ELSE IF in.opcode = OP_CONT THEN gop
    ELSE NONE
NextGbuf(in) ==
    IF in.tag # "frame" THEN <<>>
    ELSE IF in.opcode \in DataOps THEN FrameData(in)
    ELSE IF in.opcode = OP_CONT /\ gop \in DataOps THEN gbuf \o FrameData(in)
    ELSE <<>>
NextGdrop(in) ==
    in.tag = "frame" /\ in.opcode \in DataOps /\ gop \in DataOps /\ gbuf # <<>>

SetSess(s) ==
    /\ open' = s.open
    /\ outbuf' = s.outbuf
    /\ wire' = s.wire
    /\ sock' = s.sock
    /\ Len(s.outbuf) + Len(s.wire) <= MaxWritten

\* The locals of recv() do not outlive the call; the next call made on the
\* session forgets them.
ForgetRecv ==
    /\ popcode' = NONE
    /\ buf' = <<>>
    /\ frame' = NoFrame
    /\ gop' = NONE
    /\ gbuf' = <<>>
    /\ gdrop' = FALSE

\* recv() that enters its loop without looking at self.open.
RecvStart_NoGuard ==
    /\ pc = "idle"
    /\ ForgetRecv
    /\ pc' = "recv"
    /\ ret' = Ret("recv", "pending", <<>>)
    /\ UNCHANGED <<sock, tls, open, outbuf, wire, cvars>>

\* recv() is called: lines 119-122.
RecvStart ==
    /\ pc = "idle"
    /\ ForgetRecv
    /\ pc' = IF open THEN "recv" ELSE "idle"
    /\ ret' = IF open THEN Ret("recv", "pending", <<>>) ELSE RetNone("recv")
    /\ UNCHANGED <<sock, tls, open, outbuf, wire, cvars>>

\* recv() reads one frame and acts on it.  A read on a closed connection
\* can only fail.
RecvFrameOn(in, dok) ==
    /\ pc = "recv"
    /\ (sock # "open" => in.tag = "oserror")
    /\ LET r == RecvStep(Sess, popcode, buf, ret, in, dok)
       IN /\ SetSess(r.s)
          /\ popcode' = r.popcode
          /\ buf' = r.buf
          /\ Len(r.buf) <= MaxBuf
          /\ pc' = r.pc
          /\ ret' = r.ret
    /\ frame' = FrameOf(in)
    /\ gop' = NextGop(in)
    /\ gbuf' = NextGbuf(in)
    /\ gdrop' = NextGdrop(in)
    /\ Len(gbuf') <= MaxBuf
    /\ UNCHANGED <<tls, cvars>>

\* Whether acting on `in` drains the stream, so that the transport's answer
\* to the drain matters.
Drains(in) ==
    \/ in.tag = "memerr"
    \/ in.tag = "frame" /\ Branch(SeqOpcode(in.opcode, popcode)) \in {"close", "ping"}

RecvFrame ==
    \E in \in Inputs :
        \E dok \in (IF Drains(in) THEN BOOLEAN ELSE {TRUE}) : RecvFrameOn(in, dok)

\* The values send() is called with: text, bytes, and two values that are
\* neither str nor bytes.
SendValues ==
    { [kind |-> "str", val |-> <<233>>], [kind |-> "bytes", val |-> <<65>>],
      [kind |-> "bytearray", val |-> <<65>>], [kind |-> "int", val |-> <<>>] }

\* send() without the test of self.open.
SendResult_NoGuard(s, v, dok) ==
    IF v.kind \notin {"str", "bytes"}
    THEN [s |-> s, ret |-> Ret("send", "TypeError", <<>>)]
    ELSE LET s1 == IF v.kind = "str" THEN SWrite(s, OP_TEXT, Utf8Encode(v.val))
                   ELSE SWrite(s, OP_BYTES, v.val)
         IN IF DrainFails(s1, dok)
            THEN [s |-> s1, ret |-> Ret("send", "OSError", <<>>)]
            ELSE [s |-> SDrain(s1), ret |-> RetNone("send")]

\* send(buf), lines 200-213.
SendResult(s, v, dok) ==
    IF ~s.open THEN [s |-> s, ret |-> RetNone("send")]
    ELSE IF v.kind \notin {"str", "bytes"}
    THEN [s |-> s, ret |-> Ret("send", "TypeError", <<>>)]
    ELSE LET s1 == IF v.kind = "str" THEN SWrite(s, OP_TEXT, Utf8Encode(v.val))
                   ELSE SWrite(s, OP_BYTES, v.val)
         IN IF DrainFails(s1, dok)
            THEN [s |-> s1, ret |-> Ret("send", "OSError", <<>>)]
            ELSE [s |-> SDrain(s1), ret |-> RetNone("send")]

SendOn(v, dok) ==
    /\ pc = "idle"
    /\ LET r == SendResult(Sess, v, dok)
       IN SetSess(r.s) /\ ret' = r.ret
    /\ ForgetRecv
    /\ UNCHANGED <<pc, tls, cvars>>

Send == \E v \in SendValues, dok \in BOOLEAN : SendOn(v, dok)

\* close(code, reason), lines 250-258.
CloseOn(code, reason) ==
    /\ pc = "idle"
    /\ SetSess(SClose(Sess, code, reason))
    /\ ret' = RetNone("close")
    /\ ForgetRecv
    /\ UNCHANGED <<pc, tls, cvars>>

Close == \E code \in {CLOSE_OK, CLOSE_GOING_AWAY} : CloseOn(code, <<>>)

\* wait_closed(), lines 260-264.
WaitClosedResult(s, dok) ==
    IF DrainFails(s, dok) THEN [s |-> s, ret |-> Ret("wait_closed", "OSError", <<>>)]
    ELSE [s |-> SRelease(SDrain(s)), ret |-> RetNone("wait_closed")]

WaitClosedOn(dok) ==
    /\ pc = "idle"
    /\ LET r == WaitClosedResult(Sess, dok)
       IN SetSess(r.s) /\ ret' = r.ret
    /\ ForgetRecv
    /\ UNCHANGED <<pc, tls, cvars>>

WaitClosed == \E dok \in BOOLEAN : WaitClosedOn(dok)

Next == Connect \/ RecvStart \/ RecvFrame \/ Send \/ Close \/ WaitClosed

Spec == Init /\ [][Next]_vars

\* ------------------------------------------------------------ frame codec
\* One frame written by _write_frame() and read back, read by read, by
\* _read_frame(), on the level of the bytes of the stream.

\* _write_frame(opcode, data), lines 215-248.
CodecWriteOn(opcode, data, key) ==
    /\ cpc = "start"
    /\ cin' = [opcode |-> opcode, data |-> data, key |-> key]
    /\ cstream' = WriteFrameBytes(opcode, data, key)
    /\ cpc' = "written"
    /\ UNCHANGED <<cpos, cfr, svars>>

CodecWrite ==
    \E opcode \in CodecOpcodes, L \in FrameLengths, key \in MaskKeys :
        CodecWriteOn(opcode, PayloadOf(L), key)

\* readexactly(n): the next n bytes of the stream, when it holds them.
Avail(n) == cpos + n <= Len(cstream)
ReadExactly(n) == SubSeq(cstream, cpos + 1, cpos + n)

\* _read_frame(), lines 169-177: the two header bytes.
CodecReadHeader ==
    /\ cpc = "written"
    /\ Avail(2)
    /\ LET byte1 == ReadExactly(2)[1]
           byte2 == ReadExactly(2)[2]
           mask == BitAnd(byte2, 128) # 0
           length == BitAnd(byte2, 127)
       IN /\ cfr' = [cfr EXCEPT !.fin = BitAnd(byte1, 128) # 0,
                                !.opcode = BitAnd(byte1, 15),
                                !.mask = mask,
                                !.length = length]
          /\ cpc' = IF length \in {126, 127} THEN "extlen"
                    ELSE IF mask THEN "maskkey" ELSE "payload"
    /\ cpos' = cpos + 2
    /\ UNCHANGED <<cin, cstream, svars>>

\* _read_frame(), lines 179-182: the 16-bit or 64-bit length.
CodecReadExtLen ==
    /\ cpc = "extlen"
    /\ LET n == IF cfr.length = 126 THEN 2 ELSE 8
       IN /\ Avail(n)
          /\ cfr' = [cfr EXCEPT !.length = UnpackBE(ReadExactly(n))]
          /\ cpos' = cpos + n
    /\ cpc' = IF cfr.mask THEN "maskkey" ELSE "payload"
    /\ UNCHANGED <<cin, cstream, svars>>

\* _read_frame(), lines 184-185: the mask key.
CodecReadMaskKey ==
    /\ cpc = "maskkey"
    /\ Avail(4)
    /\ cfr' = [cfr EXCEPT !.key = ReadExactly(4)]
    /\ cpos' = cpos + 4
    /\ cpc' = "payload"
    /\ UNCHANGED <<cin, cstream, svars>>

\* _read_frame(), lines 187-198: the payload, unmasked when the mask bit is set.
CodecReadPayload ==
    /\ cpc = "payload"
    /\ Avail(cfr.length)
    /\ LET data == ReadExactly(cfr.length)
       IN cfr' = [cfr EXCEPT !.data = IF cfr.mask THEN MaskData(data, cfr.key) ELSE data]
    /\ cpos' = cpos + cfr.length
    /\ cpc' = "done"
    /\ UNCHANGED <<cin, cstream, svars>>

CodecNext ==
    CodecWrite \/ CodecReadHeader \/ CodecReadExtLen \/ CodecReadMaskKey
        \/ CodecReadPayload

SpecCodec == Init /\ [][CodecNext]_vars

\* ------------------------------------------------------------ properties
\* Every frame the session has written, drained or not, in order.
Log == wire \o outbuf

Frame(opcode, data) == [opcode |-> opcode, data |-> data]

\* The close code a CLOSE frame carries.
CodeOf(data) == data[1] * 256 + data[2]

CloseCount == Cardinality({i \in 1..Len(Log) : Log[i].opcode = OP_CLOSE})

\* recv() has just ended on the frame (or failed read) held in `frame`.
RecvEnded == pc = "idle" /\ ret.op = "recv" /\ frame.tag # "none"

\* recv() takes a step on a frame that _read_frame() returned whole.
ReadsFrame(opcode) == pc = "recv" /\ frame'.tag = "frame" /\ frame'.opcode = opcode

\* C1: a PING frame read while a fragmentation sequence is open (a data
\* frame with fin=false and its CONTINUATIONs were read in this call), after
\* which recv() goes on reading, has had its PONG, echoing the ping payload,
\* written and drained, and has left popcode and buf as they were.
C1_PingLeavesReassembly ==
    [][ (ReadsFrame(OP_PING) /\ gop \in DataOps /\ pc' = "recv")
          => /\ popcode' = popcode
             /\ buf' = buf
             /\ wire' = wire \o outbuf \o <<Frame(OP_PONG, frame'.data)>>
             /\ outbuf' = <<>> ]_vars

\* The value recv() returns for a message of kind `opcode` with payload b.
MessageOf(opcode, b) ==
    IF opcode = OP_TEXT THEN Ret("recv", "str", Utf8Decode(b))
    ELSE Ret("recv", "bytearray", b)

\* recv() has just ended on the CONTINUATION frame with fin=true that ends a
\* fragmentation sequence read with no other frame in between.
SequenceEnded ==
    RecvEnded /\ frame.tag = "frame" /\ frame.opcode = OP_CONT /\ frame.fin
    /\ gop \in DataOps

\* C2 as stated: a data frame with fin=false, CONTINUATION frames with
\* fin=false and a CONTINUATION frame with fin=true, read with no other
\* frame in between, make recv() return one message of the first frame's
\* kind whose payload is the concatenation of the payloads.
C2_ReassemblyAlways ==
    SequenceEnded =>
        /\ ret.out = (IF gop = OP_TEXT THEN "str" ELSE "bytearray")
        /\ (IF gop = OP_TEXT THEN Utf8Encode(ret.val) ELSE ret.val) = gbuf

\* C2 amended: ... make recv() return that message when the first frame is
\* BINARY or the concatenation is valid UTF-8; when the first frame is TEXT
\* and the concatenation is not valid UTF-8, recv() fails with a decoding
\* error and returns no message.
C2_Reassembly ==
    SequenceEnded =>
        IF gop = OP_TEXT /\ ~Utf8Valid(gbuf)
        THEN ret = Ret("recv", "UnicodeError", <<>>)
        ELSE ret = MessageOf(gop, gbuf)

\* A TEXT message of one character arrived split over two frames.
C2_Witness ==
    /\ SequenceEnded
    /\ gop = OP_TEXT
    /\ gbuf = <<195, 169>>
    /\ frame.data = <<169>>
    /\ ret = Ret("recv", "str", <<233>>)

\* The close code a peer's CLOSE payload asks to be echoed: its code, or
\* 1000 when it carries none.
EchoCode(data) == IF Len(data) >= 2 THEN CodeOf(data) ELSE CLOSE_OK

\* C3: when recv() has read a CLOSE frame from the peer and returned
\* end-of-stream, the last frame drained to the peer is a CLOSE frame with
\* the peer's close code (1000 if it sent none), nothing is left undrained
\* and the stream is released.
C3_CloseEchoesPeerCode ==
    (RecvEnded /\ frame.tag = "frame" /\ frame.opcode = OP_CLOSE /\ ret.out = "None")
        => /\ wire # <<>>
           /\ wire[Len(wire)].opcode = OP_CLOSE
           /\ CodeOf(wire[Len(wire)].data) = EchoCode(frame.data)
           /\ outbuf = <<>>
           /\ sock = "closed"

\* C4: every close() leaves open false; on an open session it writes one
\* CLOSE frame (with its code) and nothing else; on a session whose open is
\* already false it writes nothing and changes nothing; and the session
\* never holds more than one CLOSE frame among the frames it has written.
C4_CloseIdempotent ==
    [][ \A code \in {CLOSE_OK, CLOSE_GOING_AWAY} :
          CloseOn(code, <<>>) =>
            /\ open' = FALSE
            /\ wire' = wire
            /\ sock' = sock
            /\ IF open THEN outbuf' = Append(outbuf, Frame(OP_CLOSE, Pack16(code)))
               ELSE outbuf' = outbuf
            /\ CloseCount' <= 1
            /\ (open => CloseCount' = 1) ]_vars

\* close() was called on a session that close() had already closed: one
\* CLOSE frame is written, and it waits undrained.
C4_Witness ==
    /\ ret = RetNone("close")
    /\ ~open
    /\ CloseCount = 1
    /\ outbuf # <<>>
    /\ outbuf[Len(outbuf)] = Frame(OP_CLOSE, Pack16(CLOSE_GOING_AWAY))

\* C5: when the payload of an inbound frame cannot be allocated, recv()
\* returns end-of-stream with open false and a CLOSE frame of code 1009
\* drained to the peer as the last frame.
C5_OversizedCloses ==
    (RecvEnded /\ frame.tag = "memerr")
        => /\ ret = RetNone("recv")
           /\ ~open
           /\ outbuf = <<>>
           /\ wire # <<>>
           /\ wire[Len(wire)] = Frame(OP_CLOSE, Pack16(CLOSE_TOO_BIG))

\* C6: when connect() has read a status line that does not begin with
\* 'HTTP/1.1 101 ', it has failed, returned no session, and the connection
\* it opened is no longer open.
C6_RejectionReleases ==
    (ret.op = "connect" /\ ret.val.nread = 1 /\ ~StartsWith(ret.val.status, Prefix101))
        => /\ pc = "failed"
           /\ ret.out # "session"
           /\ sock # "open"

KnownOps == {OP_CONT, OP_TEXT, OP_BYTES, OP_CLOSE, OP_PING, OP_PONG}

\* C7: once _read_frame() has returned a frame whose opcode is not one of
\* 0x0, 0x1, 0x2, 0x8, 0x9, 0xA, recv() has ended by raising an error that
\* names the opcode: it has not gone on to the next frame, has returned no
\* message, and its buffer does not hold the frame's payload.
C7_UnknownOpcodeFails ==
    (frame.tag = "frame" /\ frame.opcode \notin KnownOps)
        => /\ pc = "idle"
           /\ ret = Ret("recv", "ValueError", <<frame.opcode>>)
           /\ buf = <<>>

\* A frame of the reserved opcode 0x3 with a payload made recv() fail.
C7_Witness ==
    /\ RecvEnded
    /\ frame.tag = "frame"
    /\ frame.opcode = 3
    /\ frame.data = <<195>>
    /\ ret = Ret("recv", "ValueError", <<3>>)

\* C8: when a read of the stream inside recv() has failed, by end-of-file
\* or by a transport error, recv() has returned end-of-stream with open
\* false.
C8_IoFailureEndsStream ==
    (RecvEnded /\ frame.tag \in {"eof", "oserror"})
        => /\ ret = RetNone("recv")
           /\ ~open

\* C9: a read of _read_frame() that meets end-of-file, at any stage of the
\* frame, makes recv() return end-of-stream with open false, and writes and
\* drains nothing.
C9_EofClosesSilently ==
    [][ (pc = "recv" /\ frame'.tag = "eof")
          => /\ pc' = "idle"
             /\ ret' = RetNone("recv")
             /\ open' = FALSE
             /\ outbuf' = outbuf
             /\ wire' = wire
             /\ sock' = sock ]_vars

\* End-of-file met the read of a mask key in the middle of a fragmentation
\* sequence.
C9_Witness ==
    /\ RecvEnded
    /\ frame.tag = "eof"
    /\ frame.stage = "maskkey"
    /\ popcode \in DataOps
    /\ buf # <<>>
    /\ ~open
    /\ ret = RetNone("recv")
    /\ Log = <<>>

\* C10: send() called with open false, whatever the value, returns without
\* an error, writes nothing, drains nothing and leaves the session as it was.
C10_SendOnClosedIsNoop ==
    [][ \A v \in SendValues, dok \in BOOLEAN :
          (SendOn(v, dok) /\ ~open)
            => /\ ret' = RetNone("send")
               /\ UNCHANGED <<open, outbuf, wire, sock, tls, pc>> ]_vars

\* send() was called on a session that an oversized payload had closed, and
\* whose CLOSE frame of code 1009 is still the last frame written.
C10_Witness ==
    /\ ret = RetNone("send")
    /\ ~open
    /\ Log # <<>>
    /\ Log[Len(Log)] = Frame(OP_CLOSE, Pack16(CLOSE_TOO_BIG))

\* C11: once connect() has sent its handshake request for a 'wss' URL, the
\* connection it sent it on is wrapped in TLS.
C11_SecureSchemeUsesTls ==
    (ret.op = "connect" /\ ret.val.scheme = "wss" /\ ret.val.request # <<>>)
        => tls

\* C12: the bytes _write_frame() writes for a payload of one of the lengths
\* 0, 1, 125, 126, 65535, 65536 carry the length in the variant its size
\* asks for (in the second byte below 126, as 126 and 16 bits in network
\* order below 2^16, as 127 and 64 bits in network order from 2^16 on), and
\* _read_frame() decodes them into fin = true, the opcode and the payload
\* that were written, having read every byte.
C12_CodecRoundTrip ==
    /\ cpc # "start" =>
         LET L == Len(cin.data)
         IN /\ cstream[1] = 128 + cin.opcode
            /\ IF L < 126
               THEN /\ cstream[2] = 128 + L
                    /\ Len(cstream) = 2 + 4 + L
               ELSE IF L < 65536
               THEN /\ cstream[2] = 128 + 126
                    /\ cstream[3] * 256 + cstream[4] = L
                    /\ Len(cstream) = 4 + 4 + L
               ELSE /\ cstream[2] = 128 + 127
                    /\ SubSeq(cstream, 3, 10)
                         = <<0, 0, 0, 0, 0, L \div 65536, (L \div 256) % 256, L % 256>>
                    /\ Len(cstream) = 10 + 4 + L
    /\ cpc = "done" =>
         /\ cfr.fin
         /\ cfr.opcode = cin.opcode
         /\ cfr.data = cin.data
         /\ cpos = Len(cstream)

\* A BINARY frame of 126 bytes, the shortest that needs the 16-bit length,
\* masked with a key that changes every byte, was written and read back
\* whole.
C12_Witness ==
    /\ cpc = "done"
    /\ cin.opcode = OP_BYTES
    /\ Len(cin.data) = 126
    /\ cin.key = MaskKey
    /\ cstream[2] = 254
    /\ SubSeq(cstream, 3, 4) = <<0, 126>>
    /\ cstream[9] = 17
    /\ cfr.length = 126
    /\ cfr.data = cin.data

\* C13: a CONTINUATION frame read while no fragmentation sequence is open
\* (the frames read last in this call are not a data frame with fin=false
\* and its CONTINUATIONs) makes recv() fail with an error, and no frame is
\* written in answer to it.
C13_StrayContinuationFails ==
    [][ (ReadsFrame(OP_CONT) /\ gop \notin DataOps)
          => /\ pc' = "idle"
             /\ ret'.op = "recv"
             /\ ret'.out = "ValueError"
             /\ Log' = Log ]_vars

\* C14: a PONG frame read while a fragmentation sequence is open (a data
\* frame with fin=false and its CONTINUATIONs were read in this call) is
\* discarded: recv() goes on reading, nothing is written, and popcode and
\* buf stay as they were.
C14_PongLeavesReassembly ==
    [][ (ReadsFrame(OP_PONG) /\ gop \in DataOps)
          => /\ pc' = "recv"
             /\ ret' = ret
             /\ Log' = Log
             /\ popcode' = popcode
             /\ buf' = buf ]_vars

\* C15: when connect() has returned a session, it has read a status line
\* that begins with 'HTTP/1.1 101 ' and header lines up to an empty line;
\* it has not met the end of the stream before that empty line.
C15_SessionOnlyAfterHeaders ==
    (ret.op = "connect" /\ ret.out = "session")
        => /\ StartsWith(ret.val.status, Prefix101)
           /\ ret.val.hend = "blank"

\* C16: when recv() has failed on a frame of an unknown opcode, open is
\* false (so that later send() and recv() calls do nothing).
C16_UnknownOpcodeTerminates ==
    (RecvEnded /\ frame.tag = "frame" /\ frame.opcode \notin KnownOps)
        => ~open

PongWritten == Log' = Log \o <<Frame(OP_PONG, frame'.data)>>

C19_NewDataFrameRestarts ==
    [][ /\ (ReadsFrame(OP_TEXT) \/ ReadsFrame(OP_BYTES)) /\ gop \in DataOps
          => /\ Log' = Log
             /\ open' = open
             /\ popcode' = frame'.opcode
             /\ buf' = frame'.data
             /\ IF frame'.fin
                THEN /\ pc' = "idle"
                     /\ ret'.out \in {"str", "bytearray", "UnicodeError"}
                     /\ ret'.out # "UnicodeError"
                          => ret' = MessageOf(frame'.opcode, frame'.data)
                ELSE /\ pc' = "recv"
                     /\ ret' = ret
        /\ (ReadsFrame(OP_CONT) /\ gop \in DataOps /\ frame'.fin
              /\ ret'.out \in {"str", "bytearray"})
          => ret' = MessageOf(gop, gbuf \o frame'.data) ]_vars

\* A BINARY frame with fin=true arrived while an unfinished sequence held
\* payload: recv() returned the payload of the BINARY frame alone.
C19_Witness ==
    /\ gdrop
    /\ RecvEnded
    /\ frame.opcode = OP_BYTES
    /\ frame.fin
    /\ frame.data = <<169>>
    /\ popcode = OP_BYTES
    /\ ret = Ret("recv", "bytearray", <<169>>)

\* The value of a message recv() returned, as the caller passes it to send().
SendValueOf(r) == [kind |-> r.out, val |-> r.val]

\* C20: every message value recv() can return (text for a TEXT message, the
\* byte-sequence value for a BINARY message) is accepted by send() on an
\* open session and written as one frame of the same kind with the same
\* payload: send() does not fail with the unsupported-kind error.
C20_EchoAccepted ==
    \A opcode \in DataOps, b \in SeqsUpTo(Bytes, MaxBuf) :
        (open /\ (opcode = OP_TEXT => Utf8Valid(b)))
            => LET r == SendResult(Sess, SendValueOf(RecvMessage(opcode, b)), TRUE)
               IN /\ r.ret.out # "TypeError"
                  /\ r.s.wire \o r.s.outbuf = Log \o <<Frame(opcode, b)>>

====
